---- MODULE Spec2Model ----
(***************************************************************************)
(* Model of pytest_bdd/steps.py: the step registrar (given / when / then), *)
(* the namespace contributor (contribute_to_module) and the caller scope   *)
(* resolver (get_caller_module).                                           *)
(*                                                                         *)
(* A phrase or an attribute name is a sequence of tokens: a word or the    *)
(* blank " ".  A module is its attribute table.  A function object is an   *)
(* index into funcs, carrying its __name__ (func_name), the name of its    *)
(* code object and the number of times pytest.fixture was applied to it.   *)
(***************************************************************************)
EXTENDS Naturals, Sequences, FiniteSets, TLC

VARIABLES
    mods,     \* module -> attribute table (name -> provider)
    funcs,    \* the function objects def statements created
    pend,     \* the def statement being executed, if any
    last,     \* the last call: its arguments, what it wrote, raised and returned
    writer,   \* module -> attribute -> the call that last set it
    intent,   \* module -> normalized phrase -> the last registration of it there
    nops,     \* registration calls made so far
    line,     \* the phrase handed to the Name Normalizer
    outs      \* its successive normalizations

rvars == <<mods, funcs, pend, last, writer, intent, nops>>
nvars == <<line, outs>>
vars == <<mods, funcs, pend, last, writer, intent, nops, line, outs>>

-----------------------------------------------------------------------------
(* Bounds of the model. *)

MaxFuncs == 2       \* function objects created by def statements
MaxOps == 2         \* registration calls (decorator applications, aliases)
MaxHelpers == 1     \* helper frames between the origin module and the API
MaxLen == 5         \* tokens of a phrase handed to the Name Normalizer
MaxPasses == 2      \* successive normalizations of one phrase

-----------------------------------------------------------------------------
(* Step kinds, modules, names. *)

GIVEN == "given"
WHEN == "when"
THEN_ == "then"
StepTypes == {GIVEN, WHEN, THEN_}

TestModules == {"A", "B"}
ThisModule == "pytest_bdd.steps"
Modules == TestModules \cup {ThisModule}
NoModule == "None"

NoName == <<>>
NoFunc == 0

FuncNames == {<<"f">>, <<"g">>}
FixtureNames == {<<"f">>}
RawPhrases == { <<" ", "y", " ">>,
                <<"Given", " ", "x">>,
                <<"given", " ", "When", " ", "x">> }

-----------------------------------------------------------------------------
(* Name Normalizer: pytest_bdd.feature.remove_prefix. *)

Keywords == {"given", "when", "then", "and", "but"}

Lower(w) ==
    CASE w = "Given" -> "given"
      [] w = "When" -> "when"
      [] w = "Then" -> "then"
      [] w = "And" -> "and"
      [] w = "But" -> "but"
      [] OTHER -> w

IsKeyword(w) == Lower(w) \in Keywords

RECURSIVE LStrip(_)
LStrip(s) == IF s # <<>> /\ Head(s) = " " THEN LStrip(Tail(s)) ELSE s

RECURSIVE RStrip(_)
RStrip(s) ==
    IF s # <<>> /\ s[Len(s)] = " " THEN RStrip(SubSeq(s, 1, Len(s) - 1)) ELSE s

Strip(s) == RStrip(LStrip(s))

StartsWithKeyword(s) == Len(s) >= 2 /\ IsKeyword(s[1]) /\ s[2] = " "

\* One leading keyword followed by whitespace is removed, with the whitespace
\* around it; a phrase without one comes back trimmed.
remove_prefix(phrase) ==
    LET t == LStrip(phrase)
    IN  IF StartsWithKeyword(t) THEN Strip(SubSeq(t, 3, Len(t))) ELSE Strip(phrase)

-----------------------------------------------------------------------------
(* Attribute tables, providers, records of calls. *)

Put(table, name, value) ==
    [k \in (DOMAIN table) \cup {name} |-> IF k = name THEN value ELSE table[k]]

\* ptype: "function" (a def-bound function object), "given" (fixture returning
\* the GIVEN trampoline of fn), "step" (fixture returning fn itself), "alias"
\* (fixture returning the trampoline of a fixture name); file: co_filename.
Provider(ptype, fn, fixture, file) ==
    [ptype |-> ptype, fn |-> fn, fixture |-> fixture, file |-> file]

\* What the caller asked for when it last set an attribute.
Event(op, origin, kind, raw, fn, fixture) ==
    [op |-> op, origin |-> origin, kind |-> kind, raw |-> raw, fn |-> fn,
     fixture |-> fixture]

NoCallable == [f |-> "none", step_type |-> "none", step_name |-> NoName]

NoPend == [mod |-> NoModule, defname |-> NoName, fn |-> NoFunc, outer |-> NoCallable,
           raw |-> NoName, fixture |-> NoName]

Last(op, stack, kind, raw, attr, target, fn, fixture, err, ret) ==
    [op |-> op,
     origin |-> IF stack = <<>> THEN NoModule ELSE stack[1],
     helpers |-> IF stack = <<>> THEN 0 ELSE Len(stack) - 1,
     kind |-> kind, raw |-> raw, attr |-> attr, target |-> target, fn |-> fn,
     fixture |-> fixture, err |-> err, ret |-> ret]

NoLast ==
    Last("none", <<>>, "none", NoName, NoName, NoModule, NoFunc, NoName, "none", "none")

-----------------------------------------------------------------------------
(* Caller Scope Resolver. *)

DefaultDepth == 2

\* sys._getframe(depth): frames is the stack, innermost frame last.
_getframe(frames, depth) ==
    IF depth < Len(frames) THEN frames[Len(frames) - depth] ELSE "ValueError"

\* frames: the stack at the call of get_caller_module, its own frame excluded.
\* inspect.getmodule of a frame is the module owning it, or None.
get_caller_module(frames) == _getframe(frames \o <<ThisModule>>, DefaultDepth)

RECURSIVE HelperFrames(_)
HelperFrames(n) == IF n = 0 THEN <<>> ELSE <<ThisModule>> \o HelperFrames(n - 1)

\* The stacks a registration is called from.  Direct: module-level code of a
\* test module.  Indirect: no Python frame at all, code owned by no module, or
\* a test module calling through helper frames of this package.
DirectStacks == { <<m>> : m \in TestModules }

IndirectStacks ==
    {<<>>, <<NoModule>>} \cup
    { <<m>> \o HelperFrames(n) : m \in TestModules, n \in 1..MaxHelpers }

Stacks == DirectStacks \cup IndirectStacks

-----------------------------------------------------------------------------
(* Step Registrar: the callables given / when / then return. *)

_not_a_fixture_decorator ==
    [f |-> "_not_a_fixture_decorator", step_type |-> "none", step_name |-> NoName]

_step_decorator(step_type, step_name) ==
    [f |-> "decorator", step_type |-> step_type, step_name |-> remove_prefix(step_name)]

\* given(name, fixture): the name it works with, and what it returns.
given_name_unnormalized(name) == name

given_name(name) == remove_prefix(name)

given_without_return(name, fixture) == _step_decorator(GIVEN, given_name(name))

given(name, fixture) ==
    IF fixture # NoName THEN _not_a_fixture_decorator
    ELSE _step_decorator(GIVEN, given_name(name))

when(name) == _step_decorator(WHEN, name)

then(name) == _step_decorator(THEN_, name)

StepCall(step_type, name) ==
    CASE step_type = GIVEN -> given(name, NoName)
      [] step_type = WHEN -> when(name)
      [] step_type = THEN_ -> then(name)

-----------------------------------------------------------------------------
(* The body of the decorator a step call returns, and contribute_to_module. *)

\* pytest.fixture(func) marks func in place; decorator applies it to a GIVEN
\* function only when the mark is absent.
FixtureOnce(fn_rec) ==
    IF fn_rec.fixtured = 0 THEN [fn_rec EXCEPT !.fixtured = 1] ELSE fn_rec

\* The function objects after decorator's lines up to step_func.__name__ = ... :
\* a GIVEN function is marked, and the step function is a fresh lambda that
\* gets the step name; for WHEN and THEN the step function is func itself.
decorator_funcs(c, fn) ==
    IF c.step_type = GIVEN
    THEN [funcs EXCEPT ![fn] = FixtureOnce(funcs[fn])]
    ELSE [funcs EXCEPT ![fn].name = c.step_name]

\* pytest.fixture(lambda: step_func), its code object claiming the module's file.
decorator_provider(c, fn, module) ==
    IF c.step_type = GIVEN
    THEN Provider("given", fn, NoName, module)
    ELSE Provider("step", fn, NoName, module)

\* A provider bound to whatever the fixture name denotes when given is called.
given_provider_eager(fixture, module) ==
    IF fixture \in DOMAIN mods[module] THEN mods[module][fixture]
    ELSE Provider("alias", NoFunc, fixture, module)

\* pytest.fixture(lambda: lambda request: request.getfuncargvalue(fixture))
given_provider(fixture, module) == Provider("alias", NoFunc, fixture, module)

\* What get_caller_module and contribute_to_module raise: sys._getframe raises
\* ValueError when the stack is too shallow, module.__file__ of None raises
\* AttributeError, both before anything is set.
contribute_error(module) ==
    CASE module = "ValueError" -> "ValueError"
      [] module = NoModule -> "AttributeError"
      [] OTHER -> "none"

contribute_to_module(module, name, func) ==
    [mods EXCEPT ![module] = Put(mods[module], name, func)]

Record(log, module, name, ev) == [log EXCEPT ![module] = Put(log[module], name, ev)]

\* The function an earlier registration of the same kind and normalized phrase
\* in the module was made with, when it differs from fn.
Replaced(module, key, kind, fn) ==
    IF /\ key \in DOMAIN intent[module]
       /\ intent[module][key].kind = kind
       /\ intent[module][key].fn # fn
    THEN intent[module][key].fn ELSE NoFunc

Intent(op, kind, fn, fixture, prev) ==
    [op |-> op, kind |-> kind, fn |-> fn, fixture |-> fixture, prev |-> prev]

\* Applying the callable c, got from a step call with phrase raw (and fixture,
\* when given was called with one), to function fn from the given stack.
Apply(c, kind, raw, fixture, fn, stack) ==
    IF c.f = "_not_a_fixture_decorator"
    THEN /\ last' = Last("apply", stack, kind, raw, NoName, NoModule, fn, fixture,
                         "StepError", "none")
         /\ UNCHANGED <<mods, funcs, writer, intent>>
    ELSE LET module == get_caller_module(stack \o <<ThisModule>>)
             err == contribute_error(module)
             key == remove_prefix(raw)
         IN  /\ funcs' = decorator_funcs(c, fn)
             /\ IF err # "none"
                THEN /\ last' = Last("apply", stack, kind, raw, NoName, NoModule, fn,
                                     fixture, err, "none")
                     /\ UNCHANGED <<mods, writer, intent>>
                ELSE /\ mods' = contribute_to_module(module, c.step_name,
                                    decorator_provider(c, fn, module))
                     /\ writer' = Record(writer, module, c.step_name,
                                    Event("apply", stack[1], kind, raw, fn, NoName))
                     /\ intent' = Record(intent, stack[1], key,
                                    Intent("apply", kind, fn, NoName,
                                           Replaced(stack[1], key, kind, fn)))
                     /\ last' = Last("apply", stack, kind, raw, c.step_name, module, fn,
                                     fixture, "none", "func")

\* The call given(raw, fixture=fixture) from the given stack.
Evaluate(raw, fixture, stack) ==
    LET name == given_name(raw)
        module == get_caller_module(stack \o <<ThisModule>>)
        err == contribute_error(module)
        key == remove_prefix(raw)
    IN  IF err # "none"
        THEN /\ last' = Last("alias", stack, GIVEN, raw, NoName, NoModule, NoFunc,
                             fixture, err, "none")
             /\ UNCHANGED <<mods, writer, intent>>
        ELSE /\ mods' = contribute_to_module(module, name,
                            given_provider(fixture, module))
             /\ writer' = Record(writer, module, name,
                            Event("alias", stack[1], GIVEN, raw, NoFunc, fixture))
             /\ intent' = Record(intent, stack[1], key,
                            Intent("alias", GIVEN, NoFunc, fixture, NoFunc))
             /\ last' = Last("alias", stack, GIVEN, raw, name, module, NoFunc,
                             fixture, "none", given(raw, fixture).f)

-----------------------------------------------------------------------------
(* Operations of a test session: def statements with their decorators, and *)
(* given(..., fixture=...) statements.                                     *)

Init ==
    /\ mods = [m \in Modules |-> <<>>]
    /\ writer = [m \in Modules |-> <<>>]
    /\ intent = [m \in TestModules |-> <<>>]
    /\ funcs = <<>>
    /\ pend = NoPend
    /\ last = NoLast
    /\ nops = 0
    /\ line = NoName
    /\ outs = <<>>

NewFunc(name) == [name |-> name, co_name |-> name, fixtured |-> 0]

\* A def statement of module m begins: the function object exists, its
\* decorators are still to be applied.
DefStart(m, name) ==
    /\ pend = NoPend
    /\ Len(funcs) < MaxFuncs
    /\ funcs' = Append(funcs, NewFunc(name))
    /\ pend' = [mod |-> m, defname |-> name, fn |-> Len(funcs) + 1,
                outer |-> NoCallable, raw |-> NoName, fixture |-> NoName]
    /\ last' = Last("defstart", <<m>>, "none", NoName, NoName, NoModule,
                    Len(funcs) + 1, NoName, "none", "none")
    /\ UNCHANGED <<mods, writer, intent, nops>>
    /\ UNCHANGED nvars

\* A def statement whose outermost decorator is given(raw, fixture=...): the
\* decorator expression is evaluated before the function is defined.
DefStartUnderAlias(m, name, raw, fixture) ==
    /\ pend = NoPend
    /\ Len(funcs) < MaxFuncs
    /\ nops < MaxOps
    /\ nops' = nops + 1
    /\ Evaluate(raw, fixture, <<m>>)
    /\ funcs' = Append(funcs, NewFunc(name))
    /\ pend' = [mod |-> m, defname |-> name, fn |-> Len(funcs) + 1,
                outer |-> given(raw, fixture), raw |-> raw, fixture |-> fixture]
    /\ UNCHANGED nvars

\* An inner decorator of the pending def statement is applied by the module.
Decorate(step_type, raw) ==
    /\ pend # NoPend
    /\ nops < MaxOps
    /\ nops' = nops + 1
    /\ Apply(StepCall(step_type, raw), step_type, raw, NoName, pend.fn, <<pend.mod>>)
    /\ UNCHANGED pend
    /\ UNCHANGED nvars

\* The def statement ends: the outermost callable, if any, is applied to the
\* function; otherwise the function is bound to the def's name in the module.
DefEnd ==
    /\ pend # NoPend
    /\ pend' = NoPend
    /\ UNCHANGED nops
    /\ UNCHANGED nvars
    /\ IF pend.outer.f = "none"
       THEN /\ mods' = contribute_to_module(pend.mod, pend.defname,
                           Provider("function", pend.fn, NoName, pend.mod))
            /\ writer' = Record(writer, pend.mod, pend.defname,
                           Event("def", pend.mod, "none", NoName, pend.fn, NoName))
            /\ last' = Last("def", <<pend.mod>>, "none", NoName, pend.defname, pend.mod,
                            pend.fn, NoName, "none", "none")
            /\ UNCHANGED <<funcs, intent>>
       ELSE Apply(pend.outer, GIVEN, pend.raw, pend.fixture, pend.fn, <<pend.mod>>)

\* The statement given(raw, fixture=fixture) at the top level of module m.
Alias(m, raw, fixture) ==
    /\ pend = NoPend
    /\ nops < MaxOps
    /\ nops' = nops + 1
    /\ Evaluate(raw, fixture, <<m>>)
    /\ UNCHANGED <<funcs, pend>>
    /\ UNCHANGED nvars

Next ==
    \/ \E m \in TestModules, name \in FuncNames : DefStart(m, name)
    \/ \E m \in TestModules, name \in FuncNames, raw \in RawPhrases,
          fixture \in FixtureNames : DefStartUnderAlias(m, name, raw, fixture)
    \/ \E step_type \in StepTypes, raw \in RawPhrases : Decorate(step_type, raw)
    \/ DefEnd
    \/ \E m \in TestModules, raw \in RawPhrases, fixture \in FixtureNames :
          Alias(m, raw, fixture)

Spec == Init /\ [][Next]_vars

-----------------------------------------------------------------------------
(* Registrations reached through other call stacks: helper frames between  *)
(* the test module and the entry point, no frame, or a frame of no module. *)

\* given(raw, fixture=fixture) called from an indirect stack.
AliasVia(stack, raw, fixture) ==
    /\ pend = NoPend
    /\ nops < MaxOps
    /\ nops' = nops + 1
    /\ Evaluate(raw, fixture, stack)
    /\ UNCHANGED <<funcs, pend>>
    /\ UNCHANGED nvars

\* A step call applied to an existing function, its result discarded:
\* given(raw)(f), when(raw)(f) or then(raw)(f), called from any stack.
Register(stack, step_type, raw, fn) ==
    /\ pend = NoPend
    /\ nops < MaxOps
    /\ nops' = nops + 1
    /\ fn \in 1..Len(funcs)
    /\ Apply(StepCall(step_type, raw), step_type, raw, NoName, fn, stack)
    /\ UNCHANGED pend
    /\ UNCHANGED nvars

NextScope ==
    \/ Next
    \/ \E stack \in IndirectStacks, raw \in RawPhrases, fixture \in FixtureNames :
          AliasVia(stack, raw, fixture)
    \/ \E stack \in Stacks, step_type \in StepTypes, raw \in RawPhrases,
          fn \in 1..MaxFuncs : Register(stack, step_type, raw, fn)

SpecScope == Init /\ [][NextScope]_vars

-----------------------------------------------------------------------------
(* The Name Normalizer on its own: every phrase of up to MaxLen tokens,     *)
(* normalized MaxPasses times.                                             *)

Alphabet == {"Given", "when", " ", "x"}

RECURSIVE Lines(_)
Lines(n) ==
    IF n = 0 THEN {<<>>}
    ELSE LET shorter == Lines(n - 1)
         IN  shorter \cup { Append(s, t) : s \in {u \in shorter : Len(u) = n - 1},
                                           t \in Alphabet }

InitNorm ==
    /\ mods = [m \in Modules |-> <<>>]
    /\ writer = [m \in Modules |-> <<>>]
    /\ intent = [m \in TestModules |-> <<>>]
    /\ funcs = <<>>
    /\ pend = NoPend
    /\ last = NoLast
    /\ nops = 0
    /\ line \in Lines(MaxLen)
    /\ outs = <<>>

Normalize ==
    /\ Len(outs) < MaxPasses
    /\ outs' = Append(outs, remove_prefix(IF outs = <<>> THEN line ELSE outs[Len(outs)]))
    /\ UNCHANGED line
    /\ UNCHANGED rvars

NextNorm == Normalize

SpecNorm == InitNorm /\ [][NextNorm]_vars

-----------------------------------------------------------------------------
(* Step-match time: the host resolver's per-request lookup in the scope of *)
(* module m, and the call of the step function it returns.                 *)

Value(t, fn, fixture) == [t |-> t, fn |-> fn, fixture |-> fixture]

LookupError == Value("LookupError", NoFunc, NoName)

\* What calling function fn yields.
Result(fn) == Value("result", fn, NoName)

\* The function object fn itself.
Function(fn) == Value("function", fn, NoName)

\* request.getfuncargvalue(name): providers are collected by attribute name; a
\* def-bound function is a provider only when it carries the fixture mark.
getfuncargvalue(m, name) ==
    IF name \notin DOMAIN mods[m] THEN LookupError
    ELSE LET p == mods[m][name]
         IN  CASE p.ptype = "function" ->
                      IF funcs[p.fn].fixtured > 0 THEN Result(p.fn) ELSE LookupError
               [] p.ptype = "given" -> Value("given_step_func", p.fn, NoName)
               [] p.ptype = "alias" -> Value("alias_step_func", NoFunc, p.fixture)
               [] OTHER -> Function(p.fn)

\* Calling a step function with the request: the GIVEN trampoline looks up
\* func.func_name, the fixture trampoline looks up the fixture name.
step_func(m, v) ==
    CASE v.t = "given_step_func" -> getfuncargvalue(m, funcs[v.fn].name)
      [] v.t = "alias_step_func" -> getfuncargvalue(m, v.fixture)
      [] OTHER -> v

Resolve(m, name) == step_func(m, getfuncargvalue(m, name))

\* Function fn is bound in module m under the name its def statement gave it.
BoundUnderOwnName(m, fn) ==
    /\ funcs[fn].co_name \in DOMAIN mods[m]
    /\ mods[m][funcs[fn].co_name] = Provider("function", fn, NoName, m)

\* What a phrase registered with function fn is to resolve to.
Expected(kind, fn) == IF kind = GIVEN THEN Result(fn) ELSE Function(fn)

-----------------------------------------------------------------------------
(* Properties. *)

\* C1: a function f decorated with given(P) in module M and bound there under
\* its own name: as long as P has not been registered again in M, looking up
\* the normalized P in M yields f's result, whatever else was registered.
C1_GivenLookupYieldsResult ==
    pend = NoPend =>
        \A m \in TestModules : \A k \in DOMAIN intent[m] :
            LET i == intent[m][k]
            IN  (i.op = "apply" /\ i.kind = GIVEN /\ BoundUnderOwnName(m, i.fn))
                    => Resolve(m, k) = Result(i.fn)

\* C2: while the attribute given(P, fixture=F) set in M stands, it is named by
\* the normalized P and resolving it yields what resolving F yields in the same
\* scope at that time, F being looked up when the step is matched.
C2_AliasFollowsFixture ==
    \A m \in Modules : \A a \in DOMAIN writer[m] :
        LET w == writer[m][a]
        IN  w.op = "alias" =>
                /\ w.origin = m
                /\ a = remove_prefix(w.raw)
                /\ Resolve(m, a) = getfuncargvalue(m, w.fixture)

\* C2 witness: a marked function was bound under the fixture name after the
\* alias was registered, and the alias resolves to that function's result.
C2_Witness ==
    /\ last.op = "def"
    /\ funcs[last.fn].fixtured > 0
    /\ \E a \in DOMAIN writer[last.target] :
          /\ writer[last.target][a].op = "alias"
          /\ writer[last.target][a].fixture = last.attr
          /\ Resolve(last.target, a) = Result(last.fn)

\* C3: two given registrations with different phrases stacked on one function
\* of M leave both phrases bound in M, both resolving to the function's result.
C3_StackedGivensBothResolve ==
    pend = NoPend =>
        \A m \in TestModules : \A k1 \in DOMAIN intent[m], k2 \in DOMAIN intent[m] :
            LET i1 == intent[m][k1]
                i2 == intent[m][k2]
            IN  (/\ k1 # k2
                 /\ i1.op = "apply" /\ i1.kind = GIVEN
                 /\ i2.op = "apply" /\ i2.kind = GIVEN
                 /\ i1.fn = i2.fn
                 /\ BoundUnderOwnName(m, i1.fn))
                    => /\ k1 \in DOMAIN mods[m]
                       /\ k2 \in DOMAIN mods[m]
                       /\ Resolve(m, k1) = Result(i1.fn)
                       /\ Resolve(m, k2) = Result(i1.fn)

\* C4: the same kind and phrase registered in one module with f1 and then with
\* another function f2: the phrase resolves to f2 (to its result for GIVEN),
\* never to f1.
C4_SecondRegistrationWins ==
    pend = NoPend =>
        \A m \in TestModules : \A k \in DOMAIN intent[m] :
            LET i == intent[m][k]
            IN  (i.op = "apply" /\ i.prev # NoFunc /\ BoundUnderOwnName(m, i.fn))
                    => Resolve(m, k) = Expected(i.kind, i.fn)

\* C5: given(P, fixture=F) returns the callable that raises StepError for
\* every function it is applied to and returns no function.
C5_FixtureFormIsNoDecorator ==
    /\ (last.op = "alias" /\ last.err = "none")
          => last.ret = "_not_a_fixture_decorator"
    /\ pend.fixture # NoName => pend.outer = _not_a_fixture_decorator
    /\ (last.op = "apply" /\ last.fixture # NoName)
          => (last.err = "StepError" /\ last.ret = "none")

\* C5 witness: the callable given(P, fixture=F) returned was applied to a
\* function and raised StepError.
C5_Witness ==
    /\ last.op = "apply"
    /\ last.fixture # NoName
    /\ last.fn # NoFunc
    /\ last.err = "StepError"

\* C6: a registration originating in a test module lands in that module, for
\* any number of helper frames between its call site and get_caller_module.
C6_LandsInOriginModule ==
    \A m \in Modules : \A a \in DOMAIN writer[m] : writer[m][a].origin = m

\* A phrase with a leading keyword followed by whitespace.
RECURSIVE IsBlank(_)
IsBlank(s) == s = <<>> \/ (Head(s) = " " /\ IsBlank(Tail(s)))

Trimmed(s) == s = <<>> \/ (s[1] # " " /\ s[Len(s)] # " ")

\* p is blanks, q, blanks.
TrimOf(p, q) ==
    /\ Trimmed(q)
    /\ \E a \in 0..Len(p) :
          /\ a + Len(q) <= Len(p)
          /\ IsBlank(SubSeq(p, 1, a))
          /\ SubSeq(p, a + 1, a + Len(q)) = q
          /\ IsBlank(SubSeq(p, a + Len(q) + 1, Len(p)))

HasLeadingKeyword(p) ==
    \E a \in 1..Len(p) :
        /\ IsBlank(SubSeq(p, 1, a - 1))
        /\ IsKeyword(p[a])
        /\ a < Len(p)
        /\ p[a + 1] = " "

\* p is blanks, one keyword, at least one blank, q, blanks.
OneKeywordRemoved(p, q) ==
    /\ Trimmed(q)
    /\ \E a \in 1..Len(p) :
          /\ IsBlank(SubSeq(p, 1, a - 1))
          /\ IsKeyword(p[a])
          /\ a < Len(p)
          /\ p[a + 1] = " "
          /\ TrimOf(SubSeq(p, a + 1, Len(p)), q)

C8_NoScopeRaisesStepError ==
    (last.op \in {"apply", "alias"} /\ last.origin = NoModule)
        => (last.err = "StepError" /\ last.target = NoModule)

\* C9: a registration leaves the function's own name unchanged and marks a
\* GIVEN function at most once, so that every phrase stacked on a function
\* resolves to it (WHEN, THEN) or to its result (GIVEN).
C9_FunctionUnchanged ==
    /\ \A fn \in 1..Len(funcs) :
          funcs[fn].name = funcs[fn].co_name /\ funcs[fn].fixtured <= 1
    /\ pend = NoPend =>
          \A m \in TestModules : \A k \in DOMAIN intent[m] :
              LET i == intent[m][k]
              IN  (i.op = "apply" /\ BoundUnderOwnName(m, i.fn))
                      => Resolve(m, k) = Expected(i.kind, i.fn)

\* C10: a successful registration call sets exactly one attribute, named by
\* the phrase normalized once whatever the step kind, in the caller's module,
\* and leaves all other attributes of all modules as they were.
C10_OneAttributePerCall ==
    [][(nops' = nops + 1 /\ last'.err = "none") =>
          /\ remove_prefix(last'.raw) \in DOMAIN mods'[last'.origin]
          /\ \A m \in Modules : \A a \in DOMAIN mods'[m] :
                (m # last'.origin \/ a # remove_prefix(last'.raw))
                    => (a \in DOMAIN mods[m] /\ mods'[m][a] = mods[m][a])]_vars

====
